---- MODULE Spec2Model ----
(***************************************************************************)
(* Model of src/app.py: the two Gemini callers (analyze_image_with_gemini  *)
(* and generate_image_with_gemini), their inner retry loop _send_request,  *)
(* the one-hop fallback to the default model, the parsing of the response  *)
(* and the Streamlit button handlers that store the results in the         *)
(* session.  One behaviour is a sequence of script reruns, each started by *)
(* a button press; the transport outcome of every HTTP attempt is chosen   *)
(* by the environment.                                                     *)
(***************************************************************************)
EXTENDS Integers, Sequences, FiniteSets, TLC

\* ------------------------------------------------------------------ bounds
\* number of button presses followed in one behaviour
MaxCalls == 2

\* ------------------------------------------------------- program constants
DEFAULT_TEXT_MODEL == "gemini-2.5-flash-preview-09-2025"
DEFAULT_IMAGE_MODEL == "gemini-2.5-flash-image-preview"

\* a mutation of the loop bound: range(4)
MaxAttemptsOffByOne == 4

\* for i in range(3)
MaxAttempts == 3

\* ------------------------------------------------------------------ inputs
\* identifiers a refreshed model list can offer besides the defaults
PremiumTextModel == "gemini-2.5-pro"
PremiumImageModel == "gemini-3-pro-image-preview"

text_model_options == {DEFAULT_TEXT_MODEL, PremiumTextModel}
image_model_options == {DEFAULT_IMAGE_MODEL, PremiumImageModel}

\* names of the uploaded files (keys of st.session_state.processed_images)
Files == {"a.png", "b.png"}

Fields == {"title", "prompt", "reason"}

DefaultModel(op) == IF op = "analyze" THEN DEFAULT_TEXT_MODEL ELSE DEFAULT_IMAGE_MODEL

\* --------------------------------------------------------------- the URLs
\* A URL is the sequence of the pieces the f-string concatenates.
Host == "generativelanguage.googleapis.com/v1beta/models/"

AnalyzeUrl(target_model) == <<"https://", Host, target_model, ":generateContent">>

GenerateUrl(target) ==
    <<"[", "https://", Host, "]", "(", "https://", Host, ")", target, ":generateContent">>

RequestUrl(op, target) == IF op = "analyze" THEN AnalyzeUrl(target) ELSE GenerateUrl(target)

\* requests mounts its connection adapters on these two prefixes
AdapterPrefixes == {"https://", "http://"}

HasAdapter(url) == Len(url) > 0 /\ Head(url) \in AdapterPrefixes

\* ------------------------------------------------- responses and transport
\* One value shape for "no response yet" (res = None), a response and a
\* raised transport exception.
EmptyBody == [hasCandidates |-> FALSE, finishReason |-> "", parts |-> <<>>]

NoRes == [kind |-> "none", status |-> 0, body |-> EmptyBody, error |-> "None"]

Resp(status, body) == [kind |-> "resp", status |-> status, body |-> body, error |-> "None"]

Exc(error) == [kind |-> "exc", status |-> 0, body |-> EmptyBody, error |-> error]

\* requests.post(url, params=params, json=payload): a URL that starts with
\* no mounted prefix raises InvalidSchema before anything is sent; otherwise
\* the call yields what the network and the endpoint produce.
Post(url, answer) == IF HasAdapter(url) THEN answer ELSE Exc("InvalidSchema")

\* ------------------------------------------------------------------ base64
\* An image file is a sequence of bytes; base64 text is a sequence of
\* symbols, 0..63 being the alphabet and NonAlphabet any other character.
NonAlphabet == 64

RECURSIVE b64encode(_)
b64encode(bytes) ==
    IF Len(bytes) < 3 THEN <<>>
    ELSE LET b1 == bytes[1]
             b2 == bytes[2]
             b3 == bytes[3]
         IN  << b1 \div 4,
                (b1 % 4) * 16 + (b2 \div 16),
                (b2 % 16) * 4 + (b3 \div 64),
                b3 % 64 >> \o b64encode(SubSeq(bytes, 4, Len(bytes)))

RECURSIVE DecodeQuads(_)
DecodeQuads(s) ==
    IF Len(s) < 4 THEN <<>>
    ELSE << s[1] * 4 + (s[2] \div 16),
            (s[2] % 16) * 16 + (s[3] \div 4),
            (s[3] % 4) * 64 + s[4] >> \o DecodeQuads(SubSeq(s, 5, Len(s)))

\* base64.b64decode(data): characters outside the alphabet are discarded,
\* then a length that is no multiple of 4 is "Incorrect padding".
b64decode(data) ==
    LET s == SelectSeq(data, LAMBDA c : c \in 0..63)
    IN  IF Len(s) % 4 # 0
        THEN [ok |-> FALSE, bytes |-> <<>>]
        ELSE [ok |-> TRUE, bytes |-> DecodeQuads(s)]

\* the image files Image.open identifies (first bytes of a PNG and of a JPEG)
Images == { <<137, 80, 78>>, <<255, 216, 255>> }

ImageOpen(bytes) == [ok |-> bytes \in Images, image |-> bytes]

\* ------------------------------------------------------ response contents
TextPart(text) == [kind |-> "text", text |-> text, data |-> <<>>]

InlinePart(data) == [kind |-> "inlineData", text |-> <<>>, data |-> data]

Body(finishReason, parts) == [hasCandidates |-> TRUE, finishReason |-> finishReason, parts |-> parts]

\* the text of a part is a sequence of tokens: a Markdown fence, a JSON
\* document (with the array it denotes) or other prose
FenceJson == [tok |-> "fence_json", value |-> <<>>]

Fence == [tok |-> "fence", value |-> <<>>]

Prose == [tok |-> "prose", value |-> <<>>]

Json(value) == [tok |-> "json", value |-> value]

SceneA == [title |-> "Minimalist", prompt |-> "marble table", reason |-> "clean"]

SceneB == [title |-> "Lifestyle", prompt |-> "kitchen", reason |-> "warm"]

SceneNoTitle == [prompt |-> "forest", reason |-> "organic"]

SceneNoReason == [title |-> "Geometric", prompt |-> "cubes"]

\* the fences are removed only when the text starts with the opening one
StripFence(text_content) ==
    IF Len(text_content) > 0 /\ Head(text_content) = FenceJson
    THEN SelectSeq(text_content, LAMBDA t : t # FenceJson /\ t # Fence)
    ELSE text_content

\* json.loads: exactly one JSON document, else JSONDecodeError
json_loads(text_content) ==
    IF Len(text_content) = 1 /\ text_content[1].tok = "json"
    THEN [ok |-> TRUE, value |-> text_content[1].value]
    ELSE [ok |-> FALSE, value |-> <<>>]

\* bodies a 200 answer to an analysis request can carry
AnalysisBodies ==
    { [hasCandidates |-> FALSE, finishReason |-> "", parts |-> <<>>],
      Body("SAFETY", <<TextPart(<<Json(<<SceneA>>)>>)>>),
      Body("STOP", <<>>),
      Body("STOP", <<TextPart(<<Json(<<SceneA, SceneB>>)>>)>>),
      Body("STOP", <<TextPart(<<FenceJson, Json(<<SceneB>>), Fence>>)>>),
      Body("STOP", <<TextPart(<<Json(<<SceneA, SceneNoTitle>>)>>)>>),
      Body("STOP", <<TextPart(<<Json(<<SceneNoReason>>)>>)>>),
      Body("STOP", <<TextPart(<<Prose>>)>>) }

\* bodies a 200 answer to a synthesis request can carry
SynthesisBodies ==
    { [hasCandidates |-> FALSE, finishReason |-> "", parts |-> <<>>],
      Body("SAFETY", <<InlinePart(b64encode(<<137, 80, 78>>))>>),
      Body("STOP", <<TextPart(<<Prose>>)>>),
      Body("STOP", <<InlinePart(b64encode(<<137, 80, 78>>))>>),
      Body("STOP", <<InlinePart(b64encode(<<255, 216, 255>>))>>),
      Body("STOP", <<InlinePart(<<34, 21, 1, NonAlphabet>>)>>) }

\* what the network and the endpoint can produce for one attempt
Answers(op) ==
    { Exc("ConnectionError") }
    \cup { Resp(s, EmptyBody) : s \in {404, 429, 500} }
    \cup { Resp(200, b) : b \in (IF op = "analyze" THEN AnalysisBodies ELSE SynthesisBodies) }

\* ------------------------------------------------ results of a whole call
NoOutcome == [kind |-> "none", failure |-> "", detail |-> "", status |-> 0, scenes |-> <<>>, image |-> <<>>]

Raise(failure, detail, status) ==
    [kind |-> "raise", failure |-> failure, detail |-> detail, status |-> status, scenes |-> <<>>, image |-> <<>>]

ReturnScenes(scenes) ==
    [kind |-> "return", failure |-> "", detail |-> "", status |-> 200, scenes |-> scenes, image |-> <<>>]

ReturnImage(image) ==
    [kind |-> "return", failure |-> "", detail |-> "", status |-> 200, scenes |-> <<>>, image |-> image]

\* if res.status_code == 200 or (400 <= res.status_code < 500 and res.status_code != 429)
ReturnsAtOnce(status_code) ==
    status_code = 200 \/ (400 <= status_code /\ status_code < 500 /\ status_code # 429)

\* a mutation of the fallback test: a 429 is raised without a fallback
NoFallbackOnQuota(status_code, model_name, default) ==
    status_code # 200 /\ status_code # 429 /\ model_name # default

\* a mutation of the fallback test: the requested model is not looked at
FallbackWhateverModel(status_code, model_name, default) ==
    status_code # 200

\* if response.status_code != 200: if model_name != DEFAULT_..._MODEL
ShouldFallback(status_code, model_name, default) ==
    status_code # 200 /\ model_name # default

\* a mutation of the status test: every status gets the generic message
AlwaysApiError(status_code) == Raise("ApiError", "", status_code)

\* if response.status_code == 429: raise ...; raise Exception(f"API Error ...")
StatusFailure(status_code) ==
    IF status_code = 429
    THEN Raise("QuotaExceeded", "", status_code)
    ELSE Raise("ApiError", "", status_code)

\* the try block of analyze_image_with_gemini; every exception raised in it
\* is re-raised with the prefix "parse failed"
ParseAnalysis(body) ==
    IF ~body.hasCandidates THEN Raise("ParseFailed", "No candidates", 200)
    ELSE IF body.finishReason = "SAFETY" THEN Raise("ParseFailed", "Safety Block", 200)
    ELSE IF body.parts = <<>> THEN Raise("ParseFailed", "No parts", 200)
    ELSE IF body.parts[1].kind # "text" THEN Raise("ParseFailed", "KeyError", 200)
    ELSE LET loaded == json_loads(StripFence(body.parts[1].text))
         IN  IF loaded.ok
             THEN ReturnScenes(loaded.value)
             ELSE Raise("ParseFailed", "JSONDecodeError", 200)

\* the try block of generate_image_with_gemini; every exception raised in it
\* is re-raised with the prefix "generation failed".  Without candidates the defaults
\* [{}] and {} lead to an empty inline_data.
DecodeImage(body) ==
    IF ~body.hasCandidates THEN Raise("GenerationFailed", "NoImageData", 200)
    ELSE IF body.finishReason = "SAFETY" THEN Raise("GenerationFailed", "Safety", 200)
    ELSE IF body.parts = <<>> THEN Raise("GenerationFailed", "IndexError", 200)
    ELSE IF body.parts[1].kind # "inlineData" THEN Raise("GenerationFailed", "NoImageData", 200)
    ELSE LET decoded == b64decode(body.parts[1].data)
             opened == ImageOpen(decoded.bytes)
         IN  IF ~decoded.ok THEN Raise("GenerationFailed", "binascii.Error", 200)
             ELSE IF ~opened.ok THEN Raise("GenerationFailed", "UnidentifiedImageError", 200)
             ELSE ReturnImage(opened.image)

\* what a caller does with the response it ends up with
Classify(op, response) ==
    IF response.status # 200 THEN StatusFailure(response.status)
    ELSE IF op = "analyze" THEN ParseAnalysis(response.body)
    ELSE DecodeImage(response.body)

\* ------------------------------------------------------------------- state
VARIABLES
    pc,                 \* where the running script is
    calls,              \* button presses so far
    op,                 \* "analyze" or "generate": the caller that is running
    file,               \* selected_file_name
    requested,          \* the model chosen in the selectbox
    model_name,         \* model_name of the innermost running caller
    i,                  \* loop variable of _send_request
    res,                \* res of _send_request
    last_error,         \* last_error of _send_request
    lastAnswer,         \* what network and endpoint produced for the last attempt
    log,                \* the _send_request invocations of this call, in order
    outcome,            \* what the outermost caller returned or raised
    prompts,            \* st.session_state.prompts
    generated_results,  \* st.session_state.generated_results
    pageError           \* the error the page shows after the rerun

vars == <<pc, calls, op, file, requested, model_name, i, res, last_error, lastAnswer,
          log, outcome, prompts, generated_results, pageError>>

locals == <<op, file, requested, model_name, i, res, last_error, lastAnswer, log, outcome>>

session == <<prompts, generated_results>>

NoPrompts == [stored |-> FALSE, scenes |-> <<>>]

\* one invocation of _send_request: its target, the pause taken before it,
\* the results of its attempts, the sleeps it took, how it ended and the
\* response it returned
NewDispatch(target, pause) ==
    [target |-> target, pause |-> pause, got |-> <<>>, slept |-> <<>>, exit |-> "running",
     result |-> NoRes]

Last(seq) == seq[Len(seq)]

RECURSIVE Pow2(_)
Pow2(n) == IF n = 0 THEN 1 ELSE 2 * Pow2(n - 1)

\* the lines 409-418 that render the proposals of the selected file:
\* p["title"] of every entry, then 'reason' and 'prompt' of the chosen one
RenderFails(scenes, choice) ==
    \/ \E k \in DOMAIN scenes : "title" \notin DOMAIN scenes[k]
    \/ /\ choice \in DOMAIN scenes
       /\ ~({"reason", "prompt"} \subseteq DOMAIN scenes[choice])

Init ==
    /\ pc = "idle"
    /\ calls = 0
    /\ op = "none"
    /\ file = "none"
    /\ requested = "none"
    /\ model_name = "none"
    /\ i = 0
    /\ res = NoRes
    /\ last_error = "None"
    /\ lastAnswer = NoRes
    /\ log = <<>>
    /\ outcome = NoOutcome
    /\ prompts = [f \in Files |-> NoPrompts]
    /\ generated_results = [f \in Files |-> <<>>]
    /\ pageError = "none"

\* a mutation of the handlers: the stored proposals of the selected file
\* are cleared before the call is made
EnterClearingProposals(o, f, m) ==
    /\ pc' = "attempt"
    /\ calls' = calls + 1
    /\ op' = o
    /\ file' = f
    /\ requested' = m
    /\ model_name' = m
    /\ i' = 0
    /\ res' = NoRes
    /\ last_error' = "None"
    /\ lastAnswer' = NoRes
    /\ log' = <<NewDispatch(m, 0)>>
    /\ outcome' = NoOutcome
    /\ pageError' = "none"
    /\ prompts' = [prompts EXCEPT ![f] = NoPrompts]
    /\ UNCHANGED generated_results

\* entering analyze_image_with_gemini or generate_image_with_gemini from a
\* button handler, up to the first call of _send_request
Enter(o, f, m) ==
    /\ pc' = "attempt"
    /\ calls' = calls + 1
    /\ op' = o
    /\ file' = f
    /\ requested' = m
    /\ model_name' = m
    /\ i' = 0
    /\ res' = NoRes
    /\ last_error' = "None"
    /\ lastAnswer' = NoRes
    /\ log' = <<NewDispatch(m, 0)>>
    /\ outcome' = NoOutcome
    /\ pageError' = "none"
    /\ UNCHANGED session

\* the Analyze button of a selected file is pressed
ClickAnalyze ==
    /\ pc = "idle"
    /\ calls < MaxCalls
    /\ \E f \in Files, m \in text_model_options : Enter("analyze", f, m)

\* the Generate button is pressed: it exists only when the proposals of the
\* selected file were rendered and one of them is chosen
ClickGenerate ==
    /\ pc = "idle"
    /\ calls < MaxCalls
    /\ \E f \in Files, m \in image_model_options :
          /\ prompts[f].stored
          /\ \E choice \in DOMAIN prompts[f].scenes : ~RenderFails(prompts[f].scenes, choice)
          /\ Enter("generate", f, m)

\* one pass through the try block of the loop: requests.post and the test
\* of the status code
Attempt ==
    /\ pc = "attempt"
    /\ \E answer \in Answers(op) :
          LET r == Post(RequestUrl(op, model_name), answer)
              stop == r.kind = "resp" /\ ReturnsAtOnce(r.status)
          IN  /\ lastAnswer' = answer
              /\ res' = IF r.kind = "resp" THEN r ELSE res
              /\ last_error' = IF r.kind = "exc" THEN r.error ELSE last_error
              /\ log' = [log EXCEPT ![Len(log)].got = Append(@, r),
                                    ![Len(log)].exit = IF stop THEN "returned" ELSE @,
                                    ![Len(log)].result = IF stop THEN r ELSE @]
              /\ pc' = IF stop THEN "returned" ELSE "sleep"
    /\ UNCHANGED <<calls, op, file, requested, model_name, i, outcome, session, pageError>>

\* time.sleep(2 ** (i + 1)) and the step of the for loop
Backoff ==
    /\ pc = "sleep"
    /\ log' = [log EXCEPT ![Len(log)].slept = Append(@, Pow2(i + 1))]
    /\ i' = i + 1
    /\ pc' = IF i + 1 < MaxAttempts THEN "attempt" ELSE "exhausted"
    /\ UNCHANGED <<calls, op, file, requested, model_name, res, last_error, lastAnswer,
                   outcome, session, pageError>>

\* after the loop: raise when no response was ever stored, else return res
LoopExit ==
    /\ pc = "exhausted"
    /\ IF res = NoRes
       THEN /\ outcome' = Raise("NetworkError", last_error, 0)
            /\ log' = [log EXCEPT ![Len(log)].exit = "raised"]
            /\ pc' = "handler"
       ELSE /\ outcome' = outcome
            /\ log' = [log EXCEPT ![Len(log)].exit = "returned", ![Len(log)].result = res]
            /\ pc' = "returned"
    /\ UNCHANGED <<calls, op, file, requested, model_name, i, res, last_error, lastAnswer,
                   session, pageError>>

\* the recursive call with the default model, after the toast and a pause
\* of one second
Fallback ==
    /\ pc = "returned"
    /\ ShouldFallback(res.status, model_name, DefaultModel(op))
    /\ model_name' = DefaultModel(op)
    /\ log' = Append(log, NewDispatch(DefaultModel(op), 1))
    /\ i' = 0
    /\ res' = NoRes
    /\ last_error' = "None"
    /\ pc' = "attempt"
    /\ UNCHANGED <<calls, op, file, requested, lastAnswer, outcome, session, pageError>>

\* no fallback: the status is raised, or the response is parsed
Complete ==
    /\ pc = "returned"
    /\ ~ShouldFallback(res.status, model_name, DefaultModel(op))
    /\ outcome' = Classify(op, res)
    /\ pc' = "handler"
    /\ UNCHANGED <<calls, op, file, requested, model_name, i, res, last_error, lastAnswer,
                   log, session, pageError>>

\* the rest of the button handler and of the rerun: a returned value is
\* stored, a raised one is shown by st.error, then the proposals of the
\* selected file are rendered
HandlerEnd ==
    /\ pc = "handler"
    /\ prompts' = IF op = "analyze" /\ outcome.kind = "return"
                  THEN [prompts EXCEPT ![file] = [stored |-> TRUE, scenes |-> outcome.scenes]]
                  ELSE prompts
    /\ generated_results' = IF op = "generate" /\ outcome.kind = "return"
                            THEN [generated_results EXCEPT ![file] = <<outcome.image>> \o @]
                            ELSE generated_results
    /\ \E choice \in DOMAIN prompts'[file].scenes \cup {0} :
          pageError' = IF prompts'[file].stored /\ RenderFails(prompts'[file].scenes, choice)
                       THEN "KeyError"
                       ELSE IF outcome.kind = "raise" THEN outcome.failure ELSE "none"
    /\ pc' = "idle"
    /\ op' = "none"
    /\ file' = "none"
    /\ requested' = "none"
    /\ model_name' = "none"
    /\ i' = 0
    /\ res' = NoRes
    /\ last_error' = "None"
    /\ lastAnswer' = NoRes
    /\ log' = <<>>
    /\ outcome' = NoOutcome
    /\ UNCHANGED calls

Next ==
    \/ ClickAnalyze
    \/ ClickGenerate
    \/ Attempt
    \/ Backoff
    \/ LoopExit
    \/ Fallback
    \/ Complete
    \/ HandlerEnd

Spec == Init /\ [][Next]_vars

\* ------------------------------------------------------------- properties
\* the caller has returned or raised and the handler is about to act on it
CallOver == pc = "handler"

RECURSIVE SumSeq(_)
SumSeq(seq) == IF seq = <<>> THEN 0 ELSE Head(seq) + SumSeq(Tail(seq))

\* HTTP attempts of the whole call so far
TotalAttempts == SumSeq([k \in DOMAIN log |-> Len(log[k].got)])

Targets == { log[k].target : k \in DOMAIN log }

IsPrefix(a, b) == Len(a) <= Len(b) /\ a = SubSeq(b, 1, Len(a))

\* the dispatch ended without a response with status 200
Failed(d) == d.exit = "raised" \/ (d.exit = "returned" /\ d.result.status # 200)

\* every attempt of the dispatch was answered with status 429
AllQuota(d) ==
    /\ Len(d.got) = MaxAttempts
    /\ \A n \in DOMAIN d.got : d.got[n].kind = "resp" /\ d.got[n].status = 429

\* C1: one _send_request issues at most 3 attempts, stops without sleeping
\* at the first 200 or non-429 4xx, and otherwise sleeps 2s then 4s between
\* consecutive attempts, never after the last attempt.
C1_SleepOnlyBetweenAttempts ==
    \A k \in DOMAIN log :
        LET d == log[k]
        IN  /\ Len(d.got) <= 3
            /\ IsPrefix(d.slept, <<2, 4>>)
            /\ \A n \in DOMAIN d.got :
                  (d.got[n].kind = "resp" /\ ReturnsAtOnce(d.got[n].status))
                      => (n = Len(d.got) /\ Len(d.slept) = n - 1)
            /\ d.exit # "running" => Len(d.slept) = Len(d.got) - 1

\* C2 as stated: a premium call whose first dispatch fails in any way, a
\* non-200 response or a transport failure on all attempts, makes exactly
\* one fallback dispatch to the default model.
C2_FallbackOnAnyFailure ==
    (CallOver /\ requested # DefaultModel(op) /\ Failed(log[1]))
        => (Len(log) = 2 /\ log[2].target = DefaultModel(op))

\* C2 amended: a premium call whose first dispatch returns a response with
\* a status other than 200 makes exactly one fallback dispatch, to the
\* default model; when the first dispatch raises the network failure, or
\* returns a 200, there is none; and there are never more than two
\* dispatches.
C2_FallbackOnFailedResponse ==
    /\ Len(log) <= 2
    /\ (CallOver /\ requested # DefaultModel(op)) =>
          /\ log[1].target = requested
          /\ (log[1].exit = "returned" /\ log[1].result.status # 200)
                => (Len(log) = 2 /\ log[2].target = DefaultModel(op) /\ log[2].exit # "running")
          /\ (log[1].exit = "raised" \/ log[1].result.status = 200) => Len(log) = 1
          /\ log[1].exit = "raised" => (outcome.kind = "raise" /\ outcome.failure = "NetworkError")

C2_Witness ==
    /\ CallOver
    /\ requested # DefaultModel(op)
    /\ Len(log) = 2
    /\ log[1].result.status = 429
    /\ log[2].target = DefaultModel(op)

\* C3: a dispatch whose third attempt raised a transport exception raises
\* the network failure carrying that error, whatever came before; it does
\* not return a response of an earlier attempt.
C3_RaisesWhenLastAttemptRaised ==
    \A k \in DOMAIN log :
        LET d == log[k]
        IN  (d.exit # "running" /\ Len(d.got) = MaxAttempts /\ Last(d.got).kind = "exc")
                => (d.exit = "raised" /\ d.result = NoRes)

\* C4: a call makes at most 6 HTTP attempts and addresses at most 2 model
\* identifiers: at most 3 attempts to the requested model, then at most
\* one fallback dispatch of at most 3 attempts to the default model.
C4_BoundedAttempts ==
    /\ TotalAttempts <= 6
    /\ Cardinality(Targets) <= 2
    /\ Len(log) <= 2
    /\ \A k \in DOMAIN log : Len(log[k].got) <= 3
    /\ Len(log) >= 1 => log[1].target = requested
    /\ Len(log) = 2 => log[2].target = DefaultModel(op)
    /\ pc = "attempt" => TotalAttempts < 6

C4_Witness ==
    /\ CallOver
    /\ TotalAttempts = 6
    /\ Cardinality(Targets) = 2

\* C5: a call that requests the default model makes a single dispatch; when
\* that dispatch fails the call raises, with no fallback.
C5_NoFallbackFromDefault ==
    (op # "none" /\ requested = DefaultModel(op)) =>
        /\ Len(log) = 1
        /\ (CallOver /\ Failed(log[1])) => outcome.kind = "raise"

C5_Witness ==
    /\ CallOver
    /\ requested = DefaultModel(op)
    /\ log[1].exit = "returned"
    /\ log[1].result.status = 500
    /\ outcome.kind = "raise"

\* C6 as stated: when all three attempts of a dispatch are answered 429,
\* the call raises the quota failure after exactly 3 attempts and 14
\* seconds of backoff.
C6_QuotaAfterThreeAttempts ==
    (CallOver /\ \E k \in DOMAIN log : AllQuota(log[k]))
        => /\ outcome.kind = "raise"
           /\ outcome.failure = "QuotaExceeded"
           /\ TotalAttempts = 3
           /\ SumSeq(Last(log).slept) = 14

\* C6 amended: when all three attempts of the last dispatch of a call (the
\* only one for the default model, the fallback one otherwise) are answered
\* 429, the call raises the quota failure, which is not the generic API
\* error, and that dispatch made exactly 3 attempts and slept 2, 4 and 8
\* seconds, 14 in all; a premium dispatch answered 429 three times is
\* followed by the fallback dispatch.
C6_QuotaOnLastDispatch ==
    /\ (CallOver /\ AllQuota(Last(log)))
          => /\ outcome.kind = "raise"
             /\ outcome.failure = "QuotaExceeded"
             /\ outcome # AlwaysApiError(429)
             /\ Last(log).target = DefaultModel(op)
             /\ Len(Last(log).got) = 3
             /\ Last(log).slept = <<2, 4, 8>>
             /\ SumSeq(Last(log).slept) = 14
    /\ (CallOver /\ requested # DefaultModel(op) /\ AllQuota(log[1])) => Len(log) = 2

C6_Witness ==
    /\ CallOver
    /\ requested # DefaultModel(op)
    /\ Len(log) = 2
    /\ AllQuota(log[2])
    /\ outcome.failure = "QuotaExceeded"

\* the endpoint answered the last attempt of a synthesis with status 200
SynthesisAnswered == CallOver /\ op = "generate" /\ lastAnswer.kind = "resp" /\ lastAnswer.status = 200

\* C7: a synthesis whose response carries finishReason SAFETY raises the
\* safety-blocked failure and returns no image, inline image data or not.
C7_SafetyBlocked ==
    (SynthesisAnswered /\ lastAnswer.body.finishReason = "SAFETY")
        => /\ outcome.kind = "raise"
           /\ outcome.failure = "GenerationFailed"
           /\ outcome.detail = "Safety"
           /\ outcome.image = <<>>

\* C8: when the endpoint answers a synthesis with status 200 and a valid
\* inline base64 image, the call returns the image that was encoded, with
\* no further attempt and no fallback.
C8_ReturnsDecodedImage ==
    \A img \in Images :
        (SynthesisAnswered /\ lastAnswer.body = Body("STOP", <<InlinePart(b64encode(img))>>))
            => /\ outcome.kind = "return"
               /\ outcome.image = img
               /\ TotalAttempts = 1
               /\ Len(log) = 1

\* C9: a synthesis answered with status 200 and a text part but no inline
\* image raises a failure of its own, different from the one raised for a
\* response without candidates.
C9_DeclinedSynthesis ==
    (SynthesisAnswered /\ lastAnswer.body.hasCandidates /\ lastAnswer.body.finishReason # "SAFETY"
        /\ lastAnswer.body.parts # <<>> /\ lastAnswer.body.parts[1].kind = "text")
        => /\ outcome.kind = "raise"
           /\ outcome.failure = "GenerationFailed"
           /\ outcome.detail # DecodeImage(EmptyBody).detail

\* C10: every entry of a sequence that analyze returns exposes title,
\* prompt and reason, so that rendering the stored proposals never fails.
C10_EntriesExposeAllFields ==
    /\ (CallOver /\ op = "analyze" /\ outcome.kind = "return")
          => \A k \in DOMAIN outcome.scenes : Fields \subseteq DOMAIN outcome.scenes[k]
    /\ pageError # "KeyError"

\* what one step may do to the stored session results: nothing while a call
\* runs or after it raised; after a return, the proposals of the selected
\* file are replaced, or one image is put in front of its results
SessionStep ==
    IF pc = "handler" /\ outcome.kind = "return"
    THEN IF op = "analyze"
         THEN /\ prompts' = [prompts EXCEPT ![file] = [stored |-> TRUE, scenes |-> outcome.scenes]]
              /\ generated_results' = generated_results
         ELSE /\ prompts' = prompts
              /\ Len(generated_results'[file]) = Len(generated_results[file]) + 1
              /\ Head(generated_results'[file]) = outcome.image
              /\ Tail(generated_results'[file]) = generated_results[file]
              /\ \A f \in Files \ {file} : generated_results'[f] = generated_results[f]
    ELSE /\ prompts' = prompts
         /\ generated_results' = generated_results

\* C11: over any sequence of Analyze and Generate presses, a call that
\* raises leaves st.session_state.prompts and generated_results as they
\* were for every file; only a call that returns writes, replacing the
\* proposals of the selected file or prepending exactly one image.
C11_FailedCallKeepsSession == [][SessionStep]_vars

\* a later analysis of a file with stored proposals has raised
C11_Witness ==
    /\ CallOver
    /\ op = "analyze"
    /\ outcome.kind = "raise"
    /\ prompts[file].stored
    /\ prompts[file].scenes # <<>>

====
